---- MODULE Spec2Model ----
(***************************************************************************)
(* ADXL345 accelerometer driver (adxl345.py) and measurement routine       *)
(* (measure.py).                                                           *)
(*                                                                         *)
(* The specifications of the module:                                       *)
(*   SpecCodec   the mask/shift arithmetic of Register.read/Register.write *)
(*               over every non-zero 8-bit mask and every byte;            *)
(*   Spec        calls of Register.read / Register.write on the six        *)
(*               registers of the device profile, over a bus that holds    *)
(*               one byte per register address;                            *)
(*   SpecDriver  ADXL345.__init__ followed by set_watermark / set_odr;     *)
(*   SpecMain    measure.main: construction, init_adxl, read_continuous,   *)
(*               write_to_csv, terminate;                                  *)
(*   SpecAcq     measure.read_continuous for every duration up to          *)
(*               MaxDuration, over a bus that may return any status;       *)
(*   SpecAcqLive the same steps under weak fairness, for termination;      *)
(*   SpecPaced   read_continuous on a device FIFO that fills by at most    *)
(*               one entry per polling iteration;                          *)
(*   SpecAccel   one call of ADXL345.get_accel;                            *)
(*   SpecFlush   one call of measure.flush, under weak fairness.           *)
(***************************************************************************)
EXTENDS Integers, Sequences, FiniteSets, TLC

VARIABLES
    hw,         \* bus device: register address -> byte held by the hardware
    bound,      \* Register.bus is not None, per register object
    call,       \* the last Register call: arguments, outcome, bus transactions
    hwChanged,  \* addresses the device changed by itself since the last call
    ncalls,     \* number of calls made so far (Spec, SpecDriver)
    self,       \* Spec: the Register object the calls are made on
    seen,       \* Spec: the byte last transferred for self over the bus, or -1
    cpc,        \* SpecCodec: which expression was evaluated
    cmask,      \* SpecCodec: field mask
    cbyte,      \* SpecCodec: raw register byte
    cvalue,     \* SpecCodec: field value
    cres,       \* SpecCodec: result of the evaluated expression
    pc,         \* SpecDriver, SpecMain: the statement to execute next
    err,        \* the error that ended the program, "none" while it runs
    watermark,  \* ADXL345.watermark
    odr,        \* ADXL345.odr
    g_range,    \* ADXL345.g_range
    range_name, \* the member of Range the constructor was called with
    hw0,        \* the bytes the device held when the program started
    buslog,     \* bus transactions of __init__ and main up to the first poll
    vidx,       \* init_adxl: number of verification reads done
    elapsed,    \* read_continuous: time.time() - start_time, in ticks
    duration_seconds, \* read_continuous: the duration it was called with
    num_entries,      \* read_continuous, flush: the local num_entries
    watermark_flag,   \* read_continuous: the local watermark_flag
    fifo_overflow,    \* read_continuous: the local fifo_overflow
    last_watermark,   \* read_continuous: the local last_watermark
    overflow_count,   \* read_continuous: the local overflow_count
    read_count,       \* read_continuous: the local read_count
    samples,          \* read_continuous: the local list samples
    returned,         \* what read_continuous returned, <<"none">> before
    csv,              \* what write_to_csv persisted, <<"none">> before
    polls,            \* number of polling iterations started
    ovr_polls,        \* number of iterations that read OVERRUN as set
    ntxn,             \* bus transactions issued after the first poll
    budget,           \* entries the device may add before the next iteration
    data,             \* get_accel: the six bytes of the last block read
    accel             \* get_accel: the last decoded triple, in counts

apiVars == <<hw, bound, call, hwChanged, ncalls, self, seen>>
codecVars == <<cpc, cmask, cbyte, cvalue, cres>>
acqVars == <<duration_seconds, num_entries, watermark_flag, fifo_overflow,
             last_watermark, overflow_count, read_count, samples, returned,
             csv, polls, ovr_polls, ntxn, budget, data, accel>>
progVars == <<pc, err, watermark, odr, g_range, range_name, hw0, buslog, vidx,
              elapsed, acqVars>>
vars == <<hw, bound, call, hwChanged, ncalls, self, seen, cpc, cmask, cbyte,
          cvalue, cres, pc, err, watermark, odr, g_range, range_name, hw0,
          buslog, vidx, elapsed, duration_seconds, num_entries,
          watermark_flag, fifo_overflow, last_watermark, overflow_count,
          read_count, samples, returned, csv, polls, ovr_polls, ntxn, budget,
          data, accel>>

(***************************************************************************)
(* Bounds of the model.                                                    *)
(***************************************************************************)
MaxCalls == 2
MaxValue == 2

Bytes == 0..255

(***************************************************************************)
(* Python integer operators on non-negative integers.                      *)
(***************************************************************************)
RECURSIVE BitAnd(_, _)
BitAnd(a, b) ==
    IF a = 0 \/ b = 0 THEN 0
    ELSE (a % 2) * (b % 2) + 2 * BitAnd(a \div 2, b \div 2)

BitOr(a, b) == a + b - BitAnd(a, b)

\* a & ~m : the bits of a with the bits of m cleared
AndNot(a, m) == a - BitAnd(a, m)

\* mask & -mask : the lowest set bit of mask, 0 for mask = 0
RECURSIVE LowestSetBit(_)
LowestSetBit(mask) ==
    IF mask = 0 THEN 0
    ELSE IF mask % 2 = 1 THEN 1
    ELSE 2 * LowestSetBit(mask \div 2)

RECURSIVE bit_length(_)
bit_length(n) == IF n = 0 THEN 0 ELSE 1 + bit_length(n \div 2)

ShiftLeft(v, s) == v * (2 ^ s)
ShiftRight(v, s) == v \div (2 ^ s)

(***************************************************************************)
(* Register: field codec (adxl345.py lines 79-82 and 90-95).               *)
(***************************************************************************)
shift_amount(mask) == bit_length(LowestSetBit(mask)) - 1

extract_unshifted(mask, reg_value) == BitAnd(reg_value, mask)

extract(mask, reg_value) ==
    ShiftRight(BitAnd(reg_value, mask), shift_amount(mask))

insert_unmasked(mask, value, reg_value) ==
    BitOr(AndNot(reg_value, mask), ShiftLeft(value, shift_amount(mask))) % 256

insert_unshifted(mask, value, reg_value) ==
    BitOr(AndNot(reg_value, mask), BitAnd(value, mask))

insert(mask, value, reg_value) ==
    BitOr(AndNot(reg_value, mask),
          BitAnd(ShiftLeft(value, shift_amount(mask)), mask))

(***************************************************************************)
(* Device profile: the six Register objects of ADXL345.__init__            *)
(* (adxl345.py lines 140-192), named by their attribute names.             *)
(***************************************************************************)
RegNames == {"bandwidth_rate", "power_control", "interrupt_source",
             "data_format", "fifo_status", "fifo_ctl"}

DEVID == 0
EXPECTED_DEVID == 229
BW_RATE == 44
POWER_CTL == 45
INT_SOURCE == 48
DATA_FORMAT == 49
FIFO_CTL == 56
FIFO_STATUS == 57

register_address(r) ==
    CASE r = "bandwidth_rate"   -> BW_RATE
      [] r = "power_control"    -> POWER_CTL
      [] r = "interrupt_source" -> INT_SOURCE
      [] r = "data_format"      -> DATA_FORMAT
      [] r = "fifo_status"      -> FIFO_STATUS
      [] r = "fifo_ctl"         -> FIFO_CTL

read_only_never(r) == FALSE

read_only(r) == r \in {"interrupt_source", "fifo_status"}

fields(r) ==
    CASE r = "bandwidth_rate" ->
            [LOW_POWER |-> 16, RATE |-> 15]
      [] r = "power_control" ->
            [LINK |-> 32, AUTO_SLEEP |-> 16, MEASURE |-> 8, SLEEP |-> 4,
             WAKEUP |-> 3]
      [] r = "interrupt_source" ->
            [DATA_READY |-> 128, SINGLE_TAP |-> 64, DOUBLE_TAP |-> 32,
             ACTIVITY |-> 16, INACTIVITY |-> 8, FREE_FALL |-> 4,
             WATERMARK |-> 2, OVERRUN |-> 1]
      [] r = "data_format" ->
            [SELF_TEST |-> 128, SPI |-> 64, INT_INVERT |-> 32, FULL_RES |-> 8,
             JUSITFY |-> 4, RANGE |-> 3]
      [] r = "fifo_status" ->
            [FIFO_TRIG |-> 128, ENTRIES |-> 63]
      [] r = "fifo_ctl" ->
            [MODE |-> 192, TRIGGER |-> 32, SAMPLES |-> 31]

Addrs == {DEVID} \cup {register_address(r) : r \in RegNames}

(***************************************************************************)
(* The bus (smbus2.SMBus), as the driver uses it: the device holds one     *)
(* byte per register address; a transaction either completes or fails      *)
(* with a transport error, in which case it has no effect on the device.   *)
(***************************************************************************)
\* a bus transaction: its kind, the register address, and the byte read or
\* written (-1 when the transport failed it)
Txn(kind, addr, byte) == [kind |-> kind, addr |-> addr, byte |-> byte]

\* a driver that keeps the byte it transferred last and answers from it
read_byte_data_cached(h, addr) ==
    IF self # "none" /\ addr = register_address(self) /\ seen # -1
    THEN seen ELSE h[addr]

read_byte_data(h, addr) == h[addr]

write_byte_data(h, addr, value) == [h EXCEPT ![addr] = value]

BusFailures == {"none", "read", "write"}

(***************************************************************************)
(* Register.read and Register.write (adxl345.py lines 75-96).  fail names  *)
(* the bus transaction of this call that the transport fails, if any.      *)
(* The result carries the error raised ("none" on normal return), the      *)
(* value returned, the device state afterwards and the bus transactions    *)
(* attempted, in order.                                                    *)
(***************************************************************************)
Outcome(e, ret, h, txns) == [err |-> e, ret |-> ret, hw |-> h, txns |-> txns]

\* the field is looked up before the bus is checked
Register_read_lookup_first(h, bnd, r, field, fail) ==
    IF field \notin DOMAIN fields(r) THEN Outcome("KeyError", -1, h, <<>>)
    ELSE IF ~bnd[r] THEN Outcome("Unbound", -1, h, <<>>)
    ELSE LET mask == fields(r)[field]
             addr == register_address(r)
         IN  IF fail = "read"
             THEN Outcome("BusError", -1, h, <<Txn("read", addr, -1)>>)
             ELSE Outcome("none", extract(mask, read_byte_data(h, addr)), h,
                          <<Txn("read", addr, read_byte_data(h, addr))>>)

Register_read(h, bnd, r, field, fail) ==
    IF ~bnd[r] THEN Outcome("Unbound", -1, h, <<>>)
    ELSE IF field \notin DOMAIN fields(r) THEN Outcome("KeyError", -1, h, <<>>)
    ELSE LET mask == fields(r)[field]
             addr == register_address(r)
         IN  IF fail = "read"
             THEN Outcome("BusError", -1, h, <<Txn("read", addr, -1)>>)
             ELSE Outcome("none", extract(mask, read_byte_data(h, addr)), h,
                          <<Txn("read", addr, read_byte_data(h, addr))>>)

Register_write(h, bnd, r, field, value, fail) ==
    IF read_only(r) THEN Outcome("ReadOnly", -1, h, <<>>)
    ELSE IF ~bnd[r] THEN Outcome("Unbound", -1, h, <<>>)
    ELSE IF field \notin DOMAIN fields(r) THEN Outcome("KeyError", -1, h, <<>>)
    ELSE LET mask == fields(r)[field]
             addr == register_address(r)
             old_value == read_byte_data(h, addr)
             reg_value == insert(mask, value, old_value)
         IN  IF fail = "read"
             THEN Outcome("BusError", -1, h, <<Txn("read", addr, -1)>>)
             ELSE IF fail = "write"
             THEN Outcome("BusError", -1, h,
                          <<Txn("read", addr, old_value), Txn("write", addr, -1)>>)
             ELSE Outcome("none", -1, write_byte_data(h, addr, reg_value),
                          <<Txn("read", addr, old_value),
                            Txn("write", addr, reg_value)>>)

(***************************************************************************)
(* SpecCodec: the arithmetic of a field read followed by a write of the    *)
(* value read, and of a field write followed by a read, on one register    *)
(* byte, for every non-zero mask.                                          *)
(***************************************************************************)
RECURSIVE PopCount(_)
PopCount(n) == IF n = 0 THEN 0 ELSE (n % 2) + PopCount(n \div 2)

Masks == 1..255

\* register bytes tried with every (mask, value) pair, and held by every
\* register of the device when a program starts
ByteSamples == {0, 90, 165, 255}

NoCall == [op |-> "none", reg |-> "none", field |-> "none", value |-> 0,
           err |-> "none", ret |-> -1, txns |-> <<>>,
           before |-> [a \in Addrs |-> 0], changed |-> {}, bound |-> FALSE,
           seen |-> -1, mem |-> -1]

ApiIdle ==
    /\ hw = [a \in Addrs |-> 0]
    /\ bound = [r \in RegNames |-> FALSE]
    /\ call = NoCall
    /\ hwChanged = {}
    /\ ncalls = 0
    /\ self = "none"
    /\ seen = -1

\* read_continuous has not been entered: lines 93-96 have not run
AcqIdle ==
    /\ num_entries = 0
    /\ watermark_flag = 0
    /\ fifo_overflow = 0
    /\ last_watermark = 0
    /\ overflow_count = 0
    /\ read_count = 0
    /\ samples = <<>>
    /\ returned = <<"none">>
    /\ csv = <<"none">>
    /\ polls = 0
    /\ ovr_polls = 0
    /\ ntxn = 0
    /\ budget = 0
    /\ data = <<0, 0, 0, 0, 0, 0>>
    /\ accel = <<0, 0, 0>>

ProgIdle ==
    /\ duration_seconds = 0
    /\ AcqIdle
    /\ pc = "idle"
    /\ err = "none"
    /\ watermark = 28
    /\ odr = 10
    /\ g_range = 1
    /\ range_name = "RANGE_FULL"
    /\ hw0 = [a \in Addrs |-> 0]
    /\ buslog = <<>>
    /\ vidx = 0
    /\ elapsed = 0

CodecIdle ==
    /\ cpc = "idle"
    /\ cmask = 1
    /\ cbyte = 0
    /\ cvalue = 0
    /\ cres = 0

InitCodec ==
    /\ ApiIdle
    /\ ProgIdle
    /\ cpc = "input"
    /\ cmask \in Masks
    /\ cbyte \in Bytes
    /\ cvalue \in 0..(2 ^ PopCount(cmask))
    /\ cbyte \in ByteSamples \/ cvalue = 0
    /\ cres = 0

\* value = read(field); write(field, value)     (lines 82 and 95)
ReadThenWrite ==
    /\ cpc = "input"
    /\ cpc' = "read_write"
    /\ cres' = insert(cmask, extract(cmask, cbyte), cbyte)
    /\ UNCHANGED <<cmask, cbyte, cvalue>>
    /\ UNCHANGED apiVars
    /\ UNCHANGED progVars

\* write(field, value); read(field)             (lines 95 and 82)
WriteThenRead ==
    /\ cpc = "input"
    /\ cpc' = "write_read"
    /\ cres' = extract(cmask, insert(cmask, cvalue, cbyte))
    /\ UNCHANGED <<cmask, cbyte, cvalue>>
    /\ UNCHANGED apiVars
    /\ UNCHANGED progVars

NextCodec == ReadThenWrite \/ WriteThenRead

SpecCodec == InitCodec /\ [][NextCodec]_vars

(***************************************************************************)
(* Spec: calls of Register.read / Register.write on one Register object of *)
(* the device profile (any one of the six), over a device that holds a     *)
(* byte for every register address.                                        *)
(***************************************************************************)
Values == 0..MaxValue

FieldNames(r) == DOMAIN fields(r) \cup {"NO_SUCH_FIELD"}

\* bytes held by every register of the device before the first call
InitBytes == {90, 165}

\* the byte the device itself puts into a status register: 11 entries in the
\* FIFO, resp. the WATERMARK and OVERRUN flags raised
DeviceByte(addr) == IF addr = FIFO_STATUS THEN 11 ELSE 3

Init ==
    /\ CodecIdle
    /\ ProgIdle
    /\ \E b \in InitBytes :
          hw = [a \in Addrs |-> IF a = DEVID THEN EXPECTED_DEVID ELSE b]
    /\ bound = [r \in RegNames |-> FALSE]
    /\ call = NoCall
    /\ hwChanged = {}
    /\ ncalls = 0
    /\ self \in RegNames
    /\ seen = -1

\* Register._bind (lines 70-73)
Bind ==
    /\ ~bound[self]
    /\ bound' = [bound EXCEPT ![self] = TRUE]
    /\ UNCHANGED <<hw, call, hwChanged, ncalls, self, seen>>
    /\ UNCHANGED codecVars
    /\ UNCHANGED progVars

CallRecord(op, r, field, value, out) ==
    [op |-> op, reg |-> r, field |-> field, value |-> value,
     err |-> out.err, ret |-> out.ret, txns |-> out.txns,
     before |-> hw, changed |-> hwChanged, bound |-> bound[r], seen |-> seen,
     mem |-> -1]

\* the byte of the last bus transaction of a call that completed
Transferred(out) ==
    IF out.err = "none" THEN out.hw[register_address(self)] ELSE seen

Read(field) ==
    /\ ncalls < MaxCalls
    /\ LET out == Register_read(hw, bound, self, field, "none")
       IN  /\ hw' = out.hw
           /\ call' = CallRecord("read", self, field, 0, out)
           /\ seen' = Transferred(out)
    /\ hwChanged' = {}
    /\ ncalls' = ncalls + 1
    /\ UNCHANGED <<bound, self>>
    /\ UNCHANGED codecVars
    /\ UNCHANGED progVars

Write(field, value) ==
    /\ ncalls < MaxCalls
    /\ LET out == Register_write(hw, bound, self, field, value, "none")
       IN  /\ hw' = out.hw
           /\ call' = CallRecord("write", self, field, value, out)
           /\ seen' = Transferred(out)
    /\ hwChanged' = {}
    /\ ncalls' = ncalls + 1
    /\ UNCHANGED <<bound, self>>
    /\ UNCHANGED codecVars
    /\ UNCHANGED progVars

\* the device updates one of its status registers
DeviceUpdate(addr) ==
    /\ ncalls < MaxCalls
    /\ hw[addr] # DeviceByte(addr)
    /\ hw' = [hw EXCEPT ![addr] = DeviceByte(addr)]
    /\ hwChanged' = hwChanged \cup {addr}
    /\ call' = NoCall
    /\ UNCHANGED <<bound, ncalls, self, seen>>
    /\ UNCHANGED codecVars
    /\ UNCHANGED progVars

Next ==
    \/ Bind
    \/ \E field \in FieldNames(self) : Read(field)
    \/ \E field \in FieldNames(self), v \in Values : Write(field, v)
    \/ \E addr \in {INT_SOURCE, FIFO_STATUS} : DeviceUpdate(addr)

Spec == Init /\ [][Next]_vars

(***************************************************************************)
(* ADXL345 (adxl345.py lines 98-229).                                      *)
(***************************************************************************)
RangeNames == {"RANGE_FULL", "RANGE_16g", "RANGE_8g", "RANGE_4g", "RANGE_2g"}

\* the integer value of each member of the IntEnum Range (lines 37-41)
RangeValue(name) ==
    CASE name = "RANGE_FULL" -> 1
      [] name = "RANGE_16g"  -> 3
      [] name = "RANGE_8g"   -> 2
      [] name = "RANGE_4g"   -> 1
      [] name = "RANGE_2g"   -> 0

RANGE_FULL == 1

\* values of OutputDataRate passed to the driver: 100, 200, 3200 Hz
Odrs == {10, 11, 15}

\* watermarks passed to the driver; 33 does not fit the 5-bit field
Watermarks == {0, 28, 33}

_bind_registers(bnd) == [r \in RegNames |-> TRUE]

_set_watermark(h, bnd, wm, fail) ==
    Register_write(h, bnd, "fifo_ctl", "SAMPLES", wm, fail)

_set_odr(h, bnd, rate, fail) ==
    Register_write(h, bnd, "bandwidth_rate", "RATE", rate, fail)

\* a statement that makes bus transactions: the program goes on to nextpc,
\* or ends with the error the statement raised
Finish(out, nextpc) ==
    /\ hw' = out.hw
    /\ buslog' = buslog \o out.txns
    /\ pc' = IF out.err = "none" THEN nextpc ELSE "raised"
    /\ err' = out.err

\* __init__, line 194
Init_bind_registers ==
    /\ pc = "init_bind"
    /\ bound' = _bind_registers(bound)
    /\ pc' = "init_watermark"
    /\ UNCHANGED <<hw, call, hwChanged, ncalls, self, seen>>
    /\ UNCHANGED <<err, watermark, odr, g_range, range_name, hw0, buslog, vidx,
                   elapsed>>
    /\ UNCHANGED codecVars
    /\ UNCHANGED acqVars

\* __init__, line 195
Init_set_watermark(fail) ==
    /\ pc = "init_watermark"
    /\ Finish(_set_watermark(hw, bound, watermark, fail), "init_odr")
    /\ UNCHANGED <<bound, call, hwChanged, ncalls, self, seen>>
    /\ UNCHANGED <<watermark, odr, g_range, range_name, hw0, vidx, elapsed>>
    /\ UNCHANGED codecVars
    /\ UNCHANGED acqVars

\* __init__, line 196
Init_set_odr(fail) ==
    /\ pc = "init_odr"
    /\ Finish(_set_odr(hw, bound, odr, fail), "init_range")
    /\ UNCHANGED <<bound, call, hwChanged, ncalls, self, seen>>
    /\ UNCHANGED <<watermark, odr, g_range, range_name, hw0, vidx, elapsed>>
    /\ UNCHANGED codecVars
    /\ UNCHANGED acqVars

\* __init__, line 197: _set_range, lines 215-218
Init_set_range(fail) ==
    /\ pc = "init_range"
    /\ IF g_range = RANGE_FULL
       THEN Finish(Register_write(hw, bound, "data_format", "FULL_RES", g_range,
                                  fail), "constructed")
       ELSE Finish(Register_write(hw, bound, "data_format", "FULL_RES", 0,
                                  fail), "init_range_code")
    /\ UNCHANGED <<bound, call, hwChanged, ncalls, self, seen>>
    /\ UNCHANGED <<watermark, odr, g_range, range_name, hw0, vidx, elapsed>>
    /\ UNCHANGED codecVars
    /\ UNCHANGED acqVars

\* _set_range, line 219
Init_set_range_code(fail) ==
    /\ pc = "init_range_code"
    /\ Finish(Register_write(hw, bound, "data_format", "RANGE", g_range, fail),
              "constructed")
    /\ UNCHANGED <<bound, call, hwChanged, ncalls, self, seen>>
    /\ UNCHANGED <<watermark, odr, g_range, range_name, hw0, vidx, elapsed>>
    /\ UNCHANGED codecVars
    /\ UNCHANGED acqVars

Construct ==
    \/ Init_bind_registers
    \/ \E fail \in BusFailures : Init_set_watermark(fail)
    \/ \E fail \in BusFailures : Init_set_odr(fail)
    \/ \E fail \in BusFailures : Init_set_range(fail)
    \/ \E fail \in BusFailures : Init_set_range_code(fail)

SetterRecord(op, r, field, value, out, mem) ==
    [op |-> op, reg |-> r, field |-> field, value |-> value,
     err |-> out.err, ret |-> out.ret, txns |-> out.txns,
     before |-> hw, changed |-> {}, bound |-> bound[r], seen |-> -1,
     mem |-> mem]

\* set_watermark, lines 222-224; an error of the write reaches the caller
set_watermark(wm, fail) ==
    /\ pc = "constructed"
    /\ ncalls < MaxCalls
    /\ ncalls' = ncalls + 1
    /\ watermark' = wm
    /\ LET out == _set_watermark(hw, bound, wm, fail)
       IN  /\ hw' = out.hw
           /\ call' = SetterRecord("set_watermark", "fifo_ctl", "SAMPLES", wm,
                                   out, watermark)
    /\ UNCHANGED <<bound, hwChanged, self, seen>>
    /\ UNCHANGED <<pc, err, odr, g_range, range_name, hw0, buslog, vidx,
                   elapsed>>
    /\ UNCHANGED codecVars
    /\ UNCHANGED acqVars

\* set_odr, lines 227-229
set_odr(rate, fail) ==
    /\ pc = "constructed"
    /\ ncalls < MaxCalls
    /\ ncalls' = ncalls + 1
    /\ odr' = rate
    /\ LET out == _set_odr(hw, bound, rate, fail)
       IN  /\ hw' = out.hw
           /\ call' = SetterRecord("set_odr", "bandwidth_rate", "RATE", rate,
                                   out, odr)
    /\ UNCHANGED <<bound, hwChanged, self, seen>>
    /\ UNCHANGED <<pc, err, watermark, g_range, range_name, hw0, buslog, vidx,
                   elapsed>>
    /\ UNCHANGED codecVars
    /\ UNCHANGED acqVars

\* the program is about to run ADXL345.__init__ (lines 132-194) on a device
\* whose registers hold b and whose identity register holds devid
Start(devid, b) ==
    /\ hw = [a \in Addrs |-> IF a = DEVID THEN devid ELSE b]
    /\ hw0 = hw
    /\ bound = [r \in RegNames |-> FALSE]
    /\ call = NoCall
    /\ hwChanged = {}
    /\ ncalls = 0
    /\ self = "none"
    /\ seen = -1
    /\ CodecIdle
    /\ pc = "init_bind"
    /\ err = "none"
    /\ buslog = <<>>
    /\ vidx = 0
    /\ elapsed = 0
    /\ AcqIdle

InitDriver ==
    /\ \E b \in ByteSamples : Start(EXPECTED_DEVID, b)
    /\ duration_seconds = 0
    /\ watermark \in Watermarks
    /\ odr \in Odrs
    /\ range_name \in RangeNames
    /\ g_range = RangeValue(range_name)

NextDriver ==
    \/ Construct
    \/ \E wm \in Watermarks, fail \in BusFailures : set_watermark(wm, fail)
    \/ \E rate \in Odrs, fail \in BusFailures : set_odr(rate, fail)

SpecDriver == InitDriver /\ [][NextDriver]_vars

(***************************************************************************)
(* measure.py: main, init_adxl and the start of read_continuous.  main     *)
(* builds the driver with watermark 28 and ODR_200 and the default range;  *)
(* an error raised by any statement ends the routine (lines 268-276).      *)
(* measure.py imports the driver class under the name ADXL; the class it   *)
(* is given by adxl345.py is ADXL345, whose constructor takes the keyword  *)
(* arguments main passes.                                                  *)
(***************************************************************************)
ODR_200 == 11
MAIN_WATERMARK == 28
duration == 10

\* identity bytes a device at the bus address may answer with
DevIds == {EXPECTED_DEVID, 0, 228, 255}

valid_devid_any(devid) == TRUE

\* init_adxl, line 16
valid_devid(devid) == devid = EXPECTED_DEVID

\* measurement enabled before the FIFO is put into STREAM mode
init_adxl_writes_measure_first ==
    << <<"data_format", "FULL_RES", 1>>,
       <<"power_control", "MEASURE", 1>>,
       <<"fifo_ctl", "MODE", 2>> >>

\* init_adxl, lines 21, 25, 29: register, field, value
init_adxl_writes ==
    << <<"data_format", "FULL_RES", 1>>,
       <<"fifo_ctl", "MODE", 2>>,
       <<"power_control", "MEASURE", 1>> >>

\* init_adxl, lines 33-38: register, field
init_adxl_reads ==
    << <<"power_control", "MEASURE">>,
       <<"data_format", "FULL_RES">>,
       <<"bandwidth_rate", "RATE">>,
       <<"fifo_ctl", "MODE">>,
       <<"fifo_ctl", "SAMPLES">>,
       <<"fifo_status", "ENTRIES">> >>

mainUnchanged ==
    /\ UNCHANGED <<bound, call, hwChanged, ncalls, self, seen>>
    /\ UNCHANGED <<watermark, odr, g_range, range_name, hw0>>
    /\ UNCHANGED codecVars

\* init_adxl, lines 14-17
Check_devid(fail) ==
    /\ pc = "constructed"
    /\ LET devid == read_byte_data(hw, DEVID)
       IN  IF fail = "read"
           THEN Finish(Outcome("BusError", -1, hw, <<Txn("read", DEVID, -1)>>),
                       "raised")
           ELSE IF ~valid_devid(devid)
           THEN Finish(Outcome("InvalidDeviceID", -1, hw,
                               <<Txn("read", DEVID, devid)>>), "raised")
           ELSE Finish(Outcome("none", devid, hw, <<Txn("read", DEVID, devid)>>),
                       "ia_write")
    /\ UNCHANGED <<vidx, elapsed>>
    /\ UNCHANGED acqVars
    /\ mainUnchanged

\* init_adxl, lines 21-29, one write per step
Init_adxl_write(fail) ==
    /\ pc = "ia_write"
    /\ LET w == init_adxl_writes[vidx + 1]
           last == vidx + 1 = Len(init_adxl_writes)
       IN  /\ Finish(Register_write(hw, bound, w[1], w[2], w[3], fail),
                     IF last THEN "ia_verify" ELSE "ia_write")
           /\ vidx' = IF last THEN 0 ELSE vidx + 1
    /\ UNCHANGED elapsed
    /\ UNCHANGED acqVars
    /\ mainUnchanged

\* init_adxl, lines 33-38, one read per step
Init_adxl_verify(fail) ==
    /\ pc = "ia_verify"
    /\ LET r == init_adxl_reads[vidx + 1]
           last == vidx + 1 = Len(init_adxl_reads)
       IN  /\ Finish(Register_read(hw, bound, r[1], r[2], fail),
                     IF last THEN "rc_enter" ELSE "ia_verify")
           /\ vidx' = IF last THEN 0 ELSE vidx + 1
    /\ UNCHANGED elapsed
    /\ UNCHANGED acqVars
    /\ mainUnchanged

(***************************************************************************)
(* The device FIFO, as the comments of adxl345.py (lines 180-191) and the   *)
(* docstring of read_continuous describe it: 32 entries deep; in BYPASS     *)
(* mode it does not collect; a new entry arriving at a full FIFO overwrites *)
(* the oldest one and raises OVERRUN; WATERMARK is raised while the FIFO    *)
(* holds at least FIFO_CTL.SAMPLES entries; a block read of the data        *)
(* registers takes the oldest entry out.                                    *)
(***************************************************************************)
FIFO_DEPTH == 32
BYPASS == 0
STREAM == 2
REG_DATAX0 == 50

entries_of(h) == h[FIFO_STATUS] % 64
mode_of(h) == h[FIFO_CTL] \div 64

\* INT_SOURCE with WATERMARK following the fill level n and OVERRUN = ovr
int_source_of(h, n, ovr) ==
    LET base == AndNot(h[INT_SOURCE], 3)
        wm == IF n >= (h[FIFO_CTL] % 32) THEN 2 ELSE 0
    IN  base + wm + ovr

\* the device takes one more measurement
DevicePush(h) ==
    IF mode_of(h) = BYPASS THEN h
    ELSE IF entries_of(h) < FIFO_DEPTH
    THEN [h EXCEPT ![FIFO_STATUS] = @ + 1,
                   ![INT_SOURCE] = int_source_of(h, entries_of(h) + 1, @ % 2)]
    ELSE [h EXCEPT ![INT_SOURCE] = int_source_of(h, entries_of(h), 1)]

\* a device whose FIFO keeps an entry that was read
DevicePop_keep(h) == h

\* the device hands out its oldest entry
DevicePop(h) ==
    IF entries_of(h) = 0 THEN h
    ELSE [h EXCEPT ![FIFO_STATUS] = @ - 1,
                   ![INT_SOURCE] = int_source_of(h, entries_of(h) - 1, 0)]

(***************************************************************************)
(* ADXL345.get_accel (adxl345.py lines 232-255).  Accelerations are kept   *)
(* in counts: the products with SCALE_FACTOR (line 249) are not modelled.  *)
(***************************************************************************)
_to_signed_16bit(value) ==
    IF BitAnd(value, 32768) # 0 THEN value - 65536 ELSE value

\* a decoder that takes the first byte of each pair as the high byte
decode_big_endian(d) ==
    << _to_signed_16bit(BitOr(ShiftLeft(d[1], 8), d[2])),
       _to_signed_16bit(BitOr(ShiftLeft(d[3], 8), d[4])),
       _to_signed_16bit(BitOr(ShiftLeft(d[5], 8), d[6])) >>

\* lines 245-249; d[k] is data[k - 1]
decode(d) ==
    << _to_signed_16bit(BitOr(ShiftLeft(d[2], 8), d[1])),
       _to_signed_16bit(BitOr(ShiftLeft(d[4], 8), d[3])),
       _to_signed_16bit(BitOr(ShiftLeft(d[6], 8), d[5])) >>

\* d is what the data registers hold; a block transaction carries its length
get_accel(h, d, fail) ==
    IF fail = "read"
    THEN Outcome("BusError", <<>>, h, <<Txn("block_read", REG_DATAX0, -1)>>)
    ELSE Outcome("none", decode(d), DevicePop(h),
                 <<Txn("block_read", REG_DATAX0, Len(d))>>)

(***************************************************************************)
(* measure.read_continuous (lines 72-162).  Time is counted in whole        *)
(* seconds; every sleep of the loop lets a positive number of them pass.    *)
(***************************************************************************)
\* OutputDataRate.hz (adxl345.py lines 23-30), in hundredths of a hertz
hz100(code) ==
    CASE code = 15 -> 320000 [] code = 14 -> 160000 [] code = 13 -> 80000
      [] code = 12 -> 40000  [] code = 11 -> 20000  [] code = 10 -> 10000
      [] code = 9 -> 5000    [] code = 8 -> 2500    [] code = 7 -> 1250
      [] code = 6 -> 625     [] code = 5 -> 313     [] code = 4 -> 156
      [] code = 3 -> 78      [] code = 2 -> 39      [] code = 1 -> 20
      [] code = 0 -> 10

\* a time in seconds, as a fraction <<numerator, denominator>>
\* enumerate that counts from one
timestamp_from_one(i, rate) == <<(i + 1) * 100, hz100(rate)>>

\* lines 84 and 151: i * (1.0 / sample_rate)
timestamp(i, rate) == <<i * 100, hz100(rate)>>

\* a loop that drains as soon as ten entries are there
drain_condition_from_ten(n) == n >= 10

\* line 134
drain_condition(n) == n > 10

\* line 113
overflow_indicator(flag, n, wm) == flag # 0 /\ n > wm

\* a loop test that lets one more iteration start at elapsed = duration
loop_continues_inclusive(t, d) == t <= d

\* line 104
loop_continues(t, d) == t < d

\* the effect of a statement that swallows the error of its bus transaction
Step_swallow(out, nextpc) ==
    /\ hw' = out.hw
    /\ ntxn' = ntxn + Len(out.txns)
    /\ pc' = nextpc
    /\ err' = IF out.err = "none" THEN err ELSE out.err
    /\ UNCHANGED buslog

\* the effect of a statement of the loop on the device and the control
\* state: an exception leaves read_continuous (no try statement in it)
Step(out, nextpc) ==
    /\ hw' = out.hw
    /\ ntxn' = ntxn + Len(out.txns)
    /\ pc' = IF out.err = "none" THEN nextpc ELSE "raised"
    /\ err' = out.err
    /\ UNCHANGED buslog

acqLocals == <<num_entries, watermark_flag, fifo_overflow, last_watermark,
               overflow_count, read_count, samples>>

\* read_continuous, lines 93-103
Rc_enter(fail) ==
    /\ pc = "rc_enter"
    /\ LET out == Register_read(hw, bound, "interrupt_source", "WATERMARK", fail)
       IN  /\ Finish(out, "rc_test")
           /\ watermark_flag' = IF out.err = "none" THEN out.ret ELSE watermark_flag
    /\ overflow_count' = 0
    /\ read_count' = 0
    /\ samples' = <<>>
    /\ last_watermark' = 0
    /\ elapsed' = 0
    /\ UNCHANGED <<vidx, duration_seconds, num_entries, fifo_overflow, returned,
                   csv, polls, ovr_polls, ntxn, budget, data, accel>>
    /\ mainUnchanged

\* read_continuous, line 104
Rc_test ==
    /\ pc = "rc_test"
    /\ IF loop_continues(elapsed, duration_seconds)
       THEN /\ pc' = "rc_poll"
            /\ polls' = polls + 1
            /\ budget' = 1
       ELSE /\ pc' = "rc_done"
            /\ UNCHANGED <<polls, budget>>
    /\ UNCHANGED <<hw, err, buslog, vidx, elapsed>>
    /\ UNCHANGED <<duration_seconds, returned, csv, ovr_polls, ntxn, data, accel>>
    /\ UNCHANGED acqLocals
    /\ mainUnchanged

\* read_continuous, line 106; b is the byte the device holds in FIFO_STATUS
\* when it is read
Rc_poll_entries(fail, b) ==
    /\ pc = "rc_poll"
    /\ LET h == [hw EXCEPT ![FIFO_STATUS] = b]
           out == Register_read(h, bound, "fifo_status", "ENTRIES", fail)
       IN  /\ IF polls = 1
              THEN Finish(out, "rc_polled") /\ UNCHANGED ntxn
              ELSE Step(out, "rc_polled")
           /\ num_entries' = IF out.err = "none" THEN out.ret ELSE num_entries
    /\ UNCHANGED <<vidx, elapsed>>
    /\ UNCHANGED <<duration_seconds, watermark_flag, fifo_overflow,
                   last_watermark, overflow_count, read_count, samples,
                   returned, csv, polls, ovr_polls, budget, data, accel>>
    /\ mainUnchanged

\* read_continuous, line 107; b is the byte the device holds in INT_SOURCE
Rc_poll_watermark(fail, b) ==
    /\ pc = "rc_polled"
    /\ LET h == [hw EXCEPT ![INT_SOURCE] = b]
           out == Register_read(h, bound, "interrupt_source", "WATERMARK", fail)
       IN  /\ Step(out, "rc_flags")
           /\ watermark_flag' = IF out.err = "none" THEN out.ret ELSE watermark_flag
    /\ UNCHANGED <<vidx, elapsed>>
    /\ UNCHANGED <<duration_seconds, num_entries, fifo_overflow,
                   last_watermark, overflow_count, read_count, samples,
                   returned, csv, polls, ovr_polls, budget, data, accel>>
    /\ mainUnchanged

\* read_continuous, line 108
Rc_poll_overrun(fail, b) ==
    /\ pc = "rc_flags"
    /\ LET h == [hw EXCEPT ![INT_SOURCE] = b]
           out == Register_read(h, bound, "interrupt_source", "OVERRUN", fail)
           ok == out.err = "none"
       IN  /\ Step(out, "rc_account")
           /\ fifo_overflow' = IF ok THEN out.ret ELSE fifo_overflow
           /\ ovr_polls' = IF ok /\ out.ret # 0 THEN ovr_polls + 1 ELSE ovr_polls
    /\ UNCHANGED <<vidx, elapsed>>
    /\ UNCHANGED <<duration_seconds, num_entries, watermark_flag,
                   last_watermark, overflow_count, read_count, samples,
                   returned, csv, polls, budget, data, accel>>
    /\ mainUnchanged

\* read_continuous, lines 111-131
Rc_account ==
    /\ pc = "rc_account"
    /\ overflow_count' =
          IF overflow_indicator(fifo_overflow, num_entries, watermark)
          THEN overflow_count + 1 ELSE overflow_count
    /\ last_watermark' = watermark_flag
    /\ pc' = "rc_drain"
    /\ UNCHANGED <<hw, err, buslog, vidx, elapsed>>
    /\ UNCHANGED <<duration_seconds, num_entries, watermark_flag, fifo_overflow,
                   read_count, samples, returned, csv, polls, ovr_polls, ntxn,
                   budget, data, accel>>
    /\ mainUnchanged

\* read_continuous, lines 134-136 and 143: one entry is read and kept; d is
\* what the data registers hold, dt the seconds that pass
Rc_drain(fail, d, dt) ==
    /\ pc = "rc_drain"
    /\ drain_condition(num_entries)
    /\ read_count' = read_count + 1
    /\ LET out == get_accel(hw, d, fail)
           ok == out.err = "none"
       IN  /\ Step(out, "rc_test")
           /\ samples' = IF ok THEN Append(samples, out.ret) ELSE samples
           /\ data' = IF ok THEN d ELSE data
           /\ accel' = IF ok THEN out.ret ELSE accel
           /\ elapsed' = IF ok THEN elapsed + dt ELSE elapsed
    /\ UNCHANGED vidx
    /\ UNCHANGED <<duration_seconds, num_entries, watermark_flag, fifo_overflow,
                   last_watermark, overflow_count, returned, csv, polls,
                   ovr_polls, budget>>
    /\ mainUnchanged

\* read_continuous, lines 137-140: nothing to read yet
Rc_wait(dt) ==
    /\ pc = "rc_drain"
    /\ ~drain_condition(num_entries)
    /\ elapsed' = elapsed + dt
    /\ pc' = "rc_test"
    /\ UNCHANGED <<hw, err, buslog, vidx>>
    /\ UNCHANGED <<duration_seconds, returned, csv, polls, ovr_polls, ntxn,
                   budget, data, accel>>
    /\ UNCHANGED acqLocals
    /\ mainUnchanged

\* lines 149-152
timestamped_samples(s, rate) ==
    [i \in 1..Len(s) |-> <<timestamp(i - 1, rate), s[i]>>]

\* read_continuous, lines 146-162: the division of line 158 is by
\* duration_seconds * sample_rate
Rc_finish ==
    /\ pc = "rc_done"
    /\ IF duration_seconds * hz100(odr) = 0
       THEN /\ err' = "ZeroDivisionError"
            /\ pc' = "raised"
            /\ UNCHANGED returned
       ELSE /\ returned' = timestamped_samples(samples, odr)
            /\ pc' = "rc_returned"
            /\ UNCHANGED err
    /\ UNCHANGED <<hw, buslog, vidx, elapsed>>
    /\ UNCHANGED <<duration_seconds, csv, polls, ovr_polls, ntxn, budget, data,
                   accel>>
    /\ UNCHANGED acqLocals
    /\ mainUnchanged

\* main, line 254: write_to_csv (lines 165-196); ok tells whether the file
\* under data/ could be opened for writing
Write_csv(ok) ==
    /\ pc = "rc_returned"
    /\ IF ok
       THEN /\ csv' = returned
            /\ pc' = "csv_written"
            /\ UNCHANGED err
       ELSE /\ err' = "OSError"
            /\ pc' = "raised"
            /\ UNCHANGED csv
    /\ UNCHANGED <<hw, buslog, vidx, elapsed>>
    /\ UNCHANGED <<duration_seconds, returned, polls, ovr_polls, ntxn, budget,
                   data, accel>>
    /\ UNCHANGED acqLocals
    /\ mainUnchanged

\* main, lines 257-265: the preview prints, then terminate (lines 229-231)
Terminate(fail) ==
    /\ pc = "csv_written"
    /\ Step(Register_write(hw, bound, "fifo_ctl", "MODE", BYPASS, fail),
            "main_done")
    /\ UNCHANGED <<vidx, elapsed>>
    /\ UNCHANGED <<duration_seconds, returned, csv, polls, ovr_polls, budget,
                   data, accel>>
    /\ UNCHANGED acqLocals
    /\ mainUnchanged

InitMain ==
    /\ \E devid \in DevIds, b \in ByteSamples : Start(devid, b)
    /\ watermark = MAIN_WATERMARK
    /\ odr = ODR_200
    /\ range_name = "RANGE_FULL"
    /\ g_range = RangeValue(range_name)
    /\ duration_seconds = duration

\* what the bus returns and how long the sleeps take in the runs of main
ReadFailures == {"none", "read"}
MainEntryBytes == {10, 11}
MainFlagBytes == {0, 3}
MainData == { <<0, 0, 255, 127, 0, 128>> }
MainAdvances == {4, 10}

NextMain ==
    \/ Init_bind_registers
    \/ \E fail \in BusFailures : Init_set_watermark(fail)
    \/ \E fail \in BusFailures : Init_set_odr(fail)
    \/ \E fail \in BusFailures : Init_set_range(fail)
    \/ \E fail \in BusFailures : Check_devid(fail)
    \/ \E fail \in BusFailures : Init_adxl_write(fail)
    \/ \E fail \in BusFailures : Init_adxl_verify(fail)
    \/ \E fail \in BusFailures : Rc_enter(fail)
    \/ Rc_test
    \/ \E fail \in ReadFailures, b \in MainEntryBytes : Rc_poll_entries(fail, b)
    \/ \E fail \in ReadFailures, b \in MainFlagBytes : Rc_poll_watermark(fail, b)
    \/ \E fail \in ReadFailures, b \in MainFlagBytes : Rc_poll_overrun(fail, b)
    \/ Rc_account
    \/ \E fail \in ReadFailures, d \in MainData, dt \in MainAdvances :
          Rc_drain(fail, d, dt)
    \/ \E dt \in MainAdvances : Rc_wait(dt)
    \/ Rc_finish
    \/ \E ok \in BOOLEAN : Write_csv(ok)
    \/ \E fail \in BusFailures : Terminate(fail)

SpecMain == InitMain /\ [][NextMain]_vars

(***************************************************************************)
(* SpecAcq: read_continuous(adxl, duration_seconds) on a constructed and   *)
(* initialised driver, for every duration up to MaxDuration, over a bus     *)
(* that may return any status and any data at every read.                   *)
(***************************************************************************)
MaxDuration == 2
MaxAdvance == 2

\* the registers of a device configured by __init__ and init_adxl that holds
\* n FIFO entries
Configured(wm, rate, n, ovr) ==
    [a \in Addrs |->
        CASE a = DEVID -> EXPECTED_DEVID
          [] a = BW_RATE -> rate
          [] a = POWER_CTL -> 8
          [] a = INT_SOURCE -> (IF n >= (wm % 32) THEN 2 ELSE 0) + ovr
          [] a = DATA_FORMAT -> 8
          [] a = FIFO_CTL -> STREAM * 64 + (wm % 32)
          [] a = FIFO_STATUS -> n]

\* read_continuous or flush is about to be called
AcqStart(label, wm, rate, n, ovr) ==
    /\ hw = Configured(wm, rate, n, ovr)
    /\ hw0 = hw
    /\ bound = [r \in RegNames |-> TRUE]
    /\ call = NoCall
    /\ hwChanged = {}
    /\ ncalls = 0
    /\ self = "none"
    /\ seen = -1
    /\ CodecIdle
    /\ pc = label
    /\ err = "none"
    /\ watermark = wm
    /\ odr = rate
    /\ range_name = "RANGE_FULL"
    /\ g_range = RangeValue(range_name)
    /\ buslog = <<>>
    /\ vidx = 0
    /\ elapsed = 0
    /\ AcqIdle

EntryBytes == {10, 11, 29}
FlagBytes == {0, 3}
DataSamples == { <<0, 0, 255, 127, 0, 128>>, <<1, 0, 0, 0, 255, 255>> }

InitAcq ==
    /\ \E wm \in Watermarks, rate \in Odrs : AcqStart("rc_enter", wm, rate, 0, 0)
    /\ duration_seconds \in 0..MaxDuration

NextAcq ==
    \/ \E fail \in ReadFailures : Rc_enter(fail)
    \/ Rc_test
    \/ \E fail \in ReadFailures, b \in EntryBytes : Rc_poll_entries(fail, b)
    \/ \E fail \in ReadFailures, b \in FlagBytes : Rc_poll_watermark(fail, b)
    \/ \E fail \in ReadFailures, b \in FlagBytes : Rc_poll_overrun(fail, b)
    \/ Rc_account
    \/ \E fail \in ReadFailures, d \in DataSamples, dt \in 1..MaxAdvance :
          Rc_drain(fail, d, dt)
    \/ \E dt \in 1..MaxAdvance : Rc_wait(dt)
    \/ Rc_finish

SpecAcq == InitAcq /\ [][NextAcq]_vars

\* read_continuous on the driver that main constructs
InitAcqLive ==
    /\ AcqStart("rc_enter", MAIN_WATERMARK, ODR_200, 0, 0)
    /\ duration_seconds \in 0..MaxDuration

\* the program keeps running: a statement that can be executed is executed
SpecAcqLive == InitAcqLive /\ [][NextAcq]_vars /\ WF_vars(NextAcq)

(***************************************************************************)
(* Properties of the field codec (SpecCodec).                              *)
(***************************************************************************)
Bit(x, i) == (x \div (2 ^ i)) % 2

\* index of the lowest set bit of a non-zero mask
LowIndex(m) == CHOOSE i \in 0..7 : Bit(m, i) = 1 /\ \A j \in 0..(i - 1) : Bit(m, j) = 0

\* the set bits of m form one run
Contiguous(m) == \E lo \in 0..7, hi \in 0..7 : lo <= hi /\ m = 2 ^ (hi + 1) - 2 ^ lo

\* C2: for every non-zero 8-bit mask and every byte b, writing back the
\* field value just read leaves the register byte equal to b.
C2_ReadThenWriteIsIdentity ==
    cpc = "read_write" => cres = cbyte

C2_Witness ==
    /\ cpc = "read_write"
    /\ cmask = 164
    /\ cbyte = 255

\* C3 as claimed: for every non-zero mask, contiguous or not, and every
\* value v < 2^popcount(mask), a write of v followed by a read returns v.
C3_Claimed ==
    (cpc = "write_read" /\ cvalue < 2 ^ PopCount(cmask)) => cres = cvalue

\* C3 amended: for every non-zero contiguous mask and every value
\* v < 2^popcount(mask), a write of v followed by a read returns v, for any
\* starting byte.
C3_WriteThenReadReturnsValue ==
    (cpc = "write_read" /\ Contiguous(cmask) /\ cvalue < 2 ^ PopCount(cmask))
        => cres = cvalue

C3_Witness ==
    /\ cpc = "write_read"
    /\ cmask = 60
    /\ cvalue = 15
    /\ cbyte = 165
    /\ cres = 15

(***************************************************************************)
(* Properties of Register.read / Register.write (Spec).                    *)
(***************************************************************************)
CallAddr == register_address(call.reg)
Kinds(txns) == [k \in DOMAIN txns |-> <<txns[k].kind, txns[k].addr>>]
CallMask == fields(call.reg)[call.field]
Succeeded(op) == call.op = op /\ call.err = "none"

\* C1: a successful write of value v to a field with mask m over the byte b
\* read in the same call leaves, in every bit of m, the bit of v shifted to
\* the field's position and, in every other bit, the bit of b; no other
\* register changes and no other address is written.
C1_WriteFrame ==
    Succeeded("write") =>
        LET m == CallMask
            s == LowIndex(m)
            b == call.before[CallAddr]
        IN  /\ hw[CallAddr] \in Bytes
            /\ \A i \in 0..7 :
                 Bit(hw[CallAddr], i) =
                    IF Bit(m, i) = 1 THEN Bit(call.value, i - s) ELSE Bit(b, i)
            /\ \A a \in Addrs \ {CallAddr} : hw[a] = call.before[a]
            /\ \A k \in DOMAIN call.txns : call.txns[k].addr = CallAddr

\* a value wider than its field, written over a byte with bits outside it
C1_Witness ==
    /\ Succeeded("write")
    /\ call.value >= 2 ^ PopCount(CallMask)
    /\ AndNot(call.before[CallAddr], CallMask) # 0
    /\ hw[CallAddr] # call.before[CallAddr]

\* C4: a successful read issues exactly one bus read of the register's own
\* address and returns the field of the byte the hardware holds at that
\* moment; a successful write issues exactly one bus read followed by one bus
\* write, both of the register's own address.
C4_NoCaching ==
    /\ Succeeded("read") =>
          /\ Kinds(call.txns) = << <<"read", CallAddr>> >>
          /\ \A i \in 0..7 :
               Bit(call.ret, i) =
                  IF i + LowIndex(CallMask) <= 7
                     /\ Bit(CallMask, i + LowIndex(CallMask)) = 1
                  THEN Bit(hw[CallAddr], i + LowIndex(CallMask)) ELSE 0
    /\ Succeeded("write") =>
          Kinds(call.txns) = << <<"read", CallAddr>>, <<"write", CallAddr>> >>

\* a read of a byte that the device changed after the driver last saw it
C4_Witness ==
    /\ Succeeded("read")
    /\ call.seen # -1
    /\ CallAddr \in call.changed
    /\ call.seen # hw[CallAddr]
    /\ call.ret # extract(CallMask, call.seen)

\* C5: a write to a read-only register fails with the read-only error for
\* every field name and value, attempts no bus transaction and leaves every
\* hardware register as it was.
C5_ReadOnlyWriteRejected ==
    (call.op = "write" /\ call.reg \in {"interrupt_source", "fifo_status"}) =>
        /\ call.err = "ReadOnly"
        /\ call.txns = <<>>
        /\ hw = call.before

C5_Witness ==
    /\ call.op = "write"
    /\ call.reg = "fifo_status"
    /\ call.bound
    /\ call.field = "ENTRIES"
    /\ call.err = "ReadOnly"

\* C6 as claimed: read and write on an unbound register fail with the
\* unbound-register error, for every register and field name, before any
\* bus transaction.
C6_Claimed ==
    (call.op \in {"read", "write"} /\ ~call.bound) =>
        /\ call.err = "Unbound"
        /\ call.txns = <<>>

\* C6 amended: on an unbound register, read fails with the unbound-register
\* error for every register and field name, and write fails with the
\* unbound-register error on a writable register and with the read-only
\* error on a read-only one; no bus transaction is attempted in either case.
C6_UnboundRejected ==
    (call.op \in {"read", "write"} /\ ~call.bound) =>
        /\ call.err = IF call.op = "write" /\ read_only(call.reg)
                      THEN "ReadOnly" ELSE "Unbound"
        /\ call.txns = <<>>
        /\ hw = call.before

C6_Witness ==
    /\ call.op = "read"
    /\ ~call.bound
    /\ call.field = "NO_SUCH_FIELD"
    /\ call.err = "Unbound"

(***************************************************************************)
(* Properties of the driver (SpecDriver).                                  *)
(***************************************************************************)
\* C7 as claimed: after construction with the full-resolution range FULL_RES
\* is 1; with +-2g, +-4g, +-8g, +-16g FULL_RES is 0 and RANGE holds the code
\* 0, 1, 2, 3 of that range; the other bits of DATA_FORMAT are unchanged.
C7_Claimed ==
    pc = "constructed" =>
        LET df == hw[DATA_FORMAT]
            df0 == hw0[DATA_FORMAT]
            code == CASE range_name = "RANGE_2g"  -> 0
                      [] range_name = "RANGE_4g"  -> 1
                      [] range_name = "RANGE_8g"  -> 2
                      [] range_name = "RANGE_16g" -> 3
                      [] OTHER -> -1
        IN  IF range_name = "RANGE_FULL"
            THEN /\ Bit(df, 3) = 1
                 /\ \A i \in 0..7 \ {3} : Bit(df, i) = Bit(df0, i)
            ELSE /\ Bit(df, 3) = 0
                 /\ df % 4 = code
                 /\ \A i \in 0..7 \ {0, 1, 3} : Bit(df, i) = Bit(df0, i)

\* C9 as claimed: after set_watermark / set_odr, if the register write
\* failed the in-memory value is the previous one, and if it succeeded the
\* in-memory value equals the hardware field.
C9_Claimed ==
    call.op \in {"set_watermark", "set_odr"} =>
        LET mem == IF call.op = "set_watermark" THEN watermark ELSE odr
            field == IF call.op = "set_watermark"
                     THEN hw[FIFO_CTL] % 32 ELSE hw[BW_RATE] % 16
        IN  /\ call.err # "none" => mem = call.mem
            /\ call.err = "none" => mem = field

(***************************************************************************)
(* Properties of the measurement routine (SpecMain).                       *)
(***************************************************************************)
IsWrite(t) == t.kind = "write"
WritesOf(log) == SelectSeq(log, IsWrite)
AddrsOf(log) == [k \in DOMAIN log |-> log[k].addr]

Acquiring ==
    pc \in {"rc_test", "rc_poll", "rc_polled", "rc_flags", "rc_account",
            "rc_drain", "rc_done", "rc_returned", "csv_written", "main_done"}

\* C8: no bus transaction is made before all six registers are bound; when
\* the acquisition loop polls the FIFO status for the first time, the bus
\* writes made so far are, in this order, SAMPLES = 28 to FIFO_CTL, RATE = 11
\* to BW_RATE, FULL_RES = 1 to DATA_FORMAT (constructor and init_adxl),
\* MODE = 0b10 to FIFO_CTL and MEASURE = 1 to POWER_CTL, and the device holds
\* MODE = 0b10 and MEASURE = 1.
C8_ConfiguredBeforeAcquisition ==
    /\ buslog # <<>> => \A r \in RegNames : bound[r]
    /\ pc \in {"rc_poll", "rc_polled"} =>
          LET w == WritesOf(buslog)
          IN  /\ AddrsOf(w) = <<FIFO_CTL, BW_RATE, DATA_FORMAT, DATA_FORMAT,
                                FIFO_CTL, POWER_CTL>>
              /\ w[1].byte % 32 = 28
              /\ w[2].byte % 16 = 11
              /\ Bit(w[3].byte, 3) = 1
              /\ Bit(w[4].byte, 3) = 1
              /\ w[5].byte \div 64 = 2
              /\ Bit(w[6].byte, 3) = 1
              /\ hw[FIFO_CTL] \div 64 = 2
              /\ Bit(hw[POWER_CTL], 3) = 1
    /\ pc = "rc_polled" /\ polls = 1 =>
          /\ buslog[Len(buslog)].kind = "read"
          /\ buslog[Len(buslog)].addr = FIFO_STATUS
          /\ buslog[Len(buslog)].byte = hw[FIFO_STATUS]

\* the first poll was made on a device that was neither in STREAM mode nor
\* measuring when the program started
C8_Witness ==
    /\ pc = "rc_polled"
    /\ hw0[FIFO_CTL] \div 64 # 2
    /\ Bit(hw0[POWER_CTL], 3) = 0

\* C10 as claimed: when the identity check fails, no bus write to any
\* register has been issued before the failure.
C10_Claimed ==
    err = "InvalidDeviceID" => WritesOf(buslog) = <<>>

\* C10 amended: if the identity register returns a byte other than 0xE5,
\* init_adxl fails with the invalid-device error before issuing any write of
\* its own: the only bus writes made before the failure are the three
\* configuration writes of the constructor (FIFO_CTL.SAMPLES, BW_RATE.RATE,
\* DATA_FORMAT.FULL_RES), the FIFO MODE field and POWER_CTL are as they were
\* at program start, and the acquisition loop never starts.
C10_InvalidDeviceStopsStartup ==
    /\ hw[DEVID] # 229 => pc \notin {"ia_write", "ia_verify", "rc_enter"} /\ ~Acquiring
    /\ (/\ pc = "raised"
        /\ buslog # <<>>
        /\ buslog[Len(buslog)].addr = DEVID
        /\ buslog[Len(buslog)].byte \notin {-1, 229}) => err = "InvalidDeviceID"
    /\ err = "InvalidDeviceID" =>
          /\ pc = "raised"
          /\ hw[DEVID] # 229
          /\ AddrsOf(WritesOf(buslog)) = <<FIFO_CTL, BW_RATE, DATA_FORMAT>>
          /\ hw[FIFO_CTL] \div 64 = hw0[FIFO_CTL] \div 64
          /\ hw[POWER_CTL] = hw0[POWER_CTL]

C10_Witness ==
    /\ err = "InvalidDeviceID"
    /\ hw[DEVID] = 228
    /\ Len(WritesOf(buslog)) = 3

(***************************************************************************)
(* Properties of read_continuous (SpecAcq).                                *)
(***************************************************************************)
\* C11 as claimed: at the end of an acquisition run overflow_count equals
\* the number of polling iterations in which the OVERRUN flag was read as
\* set.
C11_Claimed ==
    pc \in {"rc_done", "rc_returned"} => overflow_count = ovr_polls

\* C12 as claimed: read_continuous with duration_seconds = 0 completes
\* normally unless the bus fails: it starts no polling iteration, reads no
\* sample, does not end in an error, and what it returns is the empty
\* sequence.
C12_Claimed ==
    duration_seconds = 0 /\ err # "BusError" =>
        /\ polls = 0
        /\ read_count = 0
        /\ samples = <<>>
        /\ pc # "raised"
        /\ pc = "rc_returned" => returned = <<>>

(***************************************************************************)
(* SpecAccel: one call of ADXL345.get_accel on a configured device, for    *)
(* data registers holding any six bytes of DecodeBytes.                    *)
(***************************************************************************)
DecodeBytes == {0, 127, 128, 255}

\* adxl.get_accel(), lines 232-249
Get_accel(fail, d) ==
    /\ pc = "ga_call"
    /\ LET out == get_accel(hw, d, fail)
           ok == out.err = "none"
       IN  /\ Finish(out, "ga_done")
           /\ data' = IF ok THEN d ELSE data
           /\ accel' = IF ok THEN out.ret ELSE accel
    /\ UNCHANGED <<vidx, elapsed>>
    /\ UNCHANGED <<duration_seconds, returned, csv, polls, ovr_polls, ntxn,
                   budget>>
    /\ UNCHANGED acqLocals
    /\ mainUnchanged

InitAccel ==
    /\ \E n \in {0, 1, FIFO_DEPTH} :
          AcqStart("ga_call", MAIN_WATERMARK, ODR_200, n, 0)
    /\ duration_seconds = 0

NextAccel ==
    \E fail \in ReadFailures, d \in [1..6 -> DecodeBytes] : Get_accel(fail, d)

SpecAccel == InitAccel /\ [][NextAccel]_vars

\* C13: a completed get_accel has issued exactly one bus transaction, a
\* block read of 6 bytes at 0x32, and each axis is the value in
\* -32768..32767 that is congruent modulo 65536 to low byte + 256 * high
\* byte, X from bytes 0 and 1, Y from bytes 2 and 3, Z from bytes 4 and 5;
\* the bytes 00 00 FF 7F 00 80 give X = 0, Y = 32767, Z = -32768.
C13_BlockReadDecode ==
    pc = "ga_done" =>
        /\ buslog = << [kind |-> "block_read", addr |-> 50, byte |-> 6] >>
        /\ \A k \in 1..3 :
              /\ accel[k] \in -32768..32767
              /\ (accel[k] - (data[2 * k - 1] + 256 * data[2 * k])) % 65536 = 0
        /\ data = <<0, 0, 255, 127, 0, 128>> => accel = <<0, 32767, -32768>>

C13_Witness ==
    /\ pc = "ga_done"
    /\ data = <<0, 0, 255, 127, 0, 128>>
    /\ accel = <<0, 32767, -32768>>
    /\ entries_of(hw) = 0
    /\ entries_of(hw0) = 1

\* the samples read so far, in the order of the block reads (history of
\* line 136): kept by the loop itself in samples, so the claims about it
\* compare two states of a step
IsPrefix(s, t) == Len(s) <= Len(t) /\ \A i \in 1..Len(s) : t[i] = s[i]

\* a fraction <<n, d>> is less than <<m, e>>
FracLess(a, b) == a[1] * b[2] < b[1] * a[2]

\* C14: during a run every step keeps the samples read so far and adds at
\* most one at the end, the decoded block just read; the returned run has
\* one entry per sample read, in read order; the entry at 0-based index i
\* carries the timestamp i / rate (rate in hertz), so the first timestamp
\* is 0 and timestamps increase strictly, whatever the time at which the
\* sample was drained.
C14_TimestampedInReadOrder ==
    [][ /\ IsPrefix(samples, samples')
        /\ Len(samples') <= Len(samples) + 1
        /\ Len(samples') = Len(samples) + 1 =>
              /\ samples'[Len(samples')] = accel'
              /\ ntxn' = ntxn + 1
        /\ pc' = "rc_returned" =>
              /\ Len(returned') = Len(samples)
              /\ Len(samples) = read_count
              /\ \A i \in 1..Len(samples) :
                    /\ returned'[i][2] = samples[i]
                    /\ returned'[i][1][1] * hz100(odr)
                          = (i - 1) * 100 * returned'[i][1][2]
                    /\ returned'[i][1][2] > 0
              /\ Len(samples) > 0 => returned'[1][1][1] = 0
              /\ \A i \in 1..(Len(samples) - 1) :
                    FracLess(returned'[i][1], returned'[i + 1][1])
        /\ pc = "rc_returned" => returned' = returned ]_vars

\* a run that drained two different samples at times one and three seconds
C14_Witness ==
    /\ pc = "rc_returned"
    /\ Len(returned) = 2
    /\ returned[1][2] # returned[2][2]
    /\ returned[2][1] = <<100, 20000>>
    /\ elapsed = 3
    /\ duration_seconds = 2

InLoop == pc \in {"rc_test", "rc_poll", "rc_polled", "rc_flags", "rc_account",
                  "rc_drain"}

\* C15: an iteration starts only while elapsed < duration_seconds; the loop
\* is left for the statements after it only from its test, and exactly
\* when elapsed >= duration_seconds, whatever the entry count, the flags
\* and the number of samples; the only other way out is a bus error; with
\* every sleep letting time pass, every run reaches the end of the loop
\* unless a bus call raised.
C15_EndsExactlyOnElapsed ==
    /\ [][ /\ pc' = "rc_poll" => pc = "rc_test" /\ elapsed < duration_seconds
           /\ pc' = "rc_done" => pc = "rc_test" /\ elapsed >= duration_seconds
           /\ pc = "rc_test" /\ elapsed >= duration_seconds => pc' = "rc_done"
           /\ InLoop /\ ~InLoop' =>
                 pc' = "rc_done" \/ (pc' = "raised" /\ err' = "BusError")
           /\ InLoop => elapsed' >= elapsed ]_vars
    /\ <>(pc = "rc_done" \/ err = "BusError")

\* the loop ended after two iterations that found nothing to drain
C15_Witness ==
    /\ pc = "rc_done"
    /\ polls = 2
    /\ read_count = 0
    /\ num_entries = 10
    /\ elapsed >= duration_seconds
    /\ duration_seconds = 2

\* C16: a bus error raised by a transaction of a polling iteration ends the
\* run at once: the error is the outcome of read_continuous, no step
\* follows it (no further bus transaction, no change of the program state),
\* nothing has been returned to the caller and nothing is persisted.
C16_BusErrorEndsRun ==
    [][ /\ err = "BusError" => UNCHANGED vars
        /\ InLoop /\ err' = "BusError" =>
              /\ pc' = "raised"
              /\ ntxn' <= ntxn + 1
              /\ returned' = <<"none">>
              /\ csv' = <<"none">> ]_vars

\* the block read of the second iteration failed after one sample was kept
C16_Witness ==
    /\ err = "BusError"
    /\ pc = "raised"
    /\ polls = 2
    /\ Len(samples) = 1
    /\ read_count = 2
    /\ returned = <<"none">>

(***************************************************************************)
(* Properties of measure.main after acquisition (SpecMain).                *)
(***************************************************************************)
\* init_adxl has written MODE = 0b10 to FIFO_CTL (line 25): the fifth bus
\* write of main, after the three of the constructor and that of line 21
StreamEntered ==
    LET w == WritesOf(buslog)
    IN  /\ Len(w) >= 5
        /\ w[5].addr = FIFO_CTL
        /\ w[5].byte \div 64 = 2

\* C17 as claimed: once the FIFO has been put into STREAM mode, main never
\* finishes (normally or with an error) with the device still in a mode
\* other than BYPASS, and the SAMPLES and TRIGGER bits are those the
\* constructor left.
C17_Claimed ==
    pc \in {"raised", "main_done"} /\ StreamEntered =>
        /\ hw[FIFO_CTL] \div 64 = 0
        /\ hw[FIFO_CTL] % 64 = 32 * Bit(hw0[FIFO_CTL], 5) + 28

\* C18: the step that ends a polling iteration reads one sample and appends
\* it if and only if the entry count read in that iteration is greater than
\* 10, whatever the flags read and the configured watermark: then
\* read_count grows by exactly one and one block read is issued; otherwise
\* the step only lets time pass and returns to the loop test, with no bus
\* transaction and read_count and the samples unchanged; no other step of
\* the loop changes read_count or the samples.
C18_DrainIffAboveTen ==
    [][ /\ pc = "rc_drain" /\ num_entries > 10 =>
              /\ read_count' = read_count + 1
              /\ ntxn' = ntxn + 1
              /\ err' = "none" =>
                    /\ samples' = Append(samples, accel')
                    /\ pc' = "rc_test"
              /\ err' # "none" => samples' = samples
        /\ pc = "rc_drain" /\ ~(num_entries > 10) =>
              /\ read_count' = read_count
              /\ samples' = samples
              /\ ntxn' = ntxn
              /\ hw' = hw
              /\ elapsed' > elapsed
              /\ pc' = "rc_test"
        /\ pc # "rc_drain" =>
              /\ read_count' = read_count
              /\ samples' = samples ]_vars

\* a sample was drained at 11 entries with both flags clear and the
\* watermark at 28, after an iteration that waited at 10 entries
C18_Witness ==
    /\ pc = "rc_test"
    /\ polls = 2
    /\ read_count = 1
    /\ Len(samples) = 1
    /\ num_entries = 11
    /\ watermark_flag = 0
    /\ fifo_overflow = 0
    /\ watermark = 28
    /\ elapsed = 2

(***************************************************************************)
(* SpecFlush: one call of measure.flush (lines 223-227) on a configured    *)
(* device in STREAM mode that holds 0..32 entries.  Whether the device     *)
(* empties its FIFO when it is switched to BYPASS cannot be told from the  *)
(* source: both devices are modelled.                                      *)
(***************************************************************************)
\* the FIFO after the switch to BYPASS, on a device that empties it
DeviceClear(h) ==
    [h EXCEPT ![FIFO_STATUS] = 0,
              ![INT_SOURCE] = int_source_of(h, 0, 0)]

flushUnchanged ==
    /\ UNCHANGED <<buslog, vidx, elapsed>>
    /\ UNCHANGED <<duration_seconds, watermark_flag, fifo_overflow,
                   last_watermark, overflow_count, read_count, samples,
                   returned, csv, polls, ovr_polls, ntxn, budget>>
    /\ mainUnchanged

\* flush, line 224
Flush_write(fail, clears) ==
    /\ pc = "fl_enter"
    /\ LET out == Register_write(hw, bound, "fifo_ctl", "MODE", BYPASS, fail)
           ok == out.err = "none"
       IN  /\ hw' = IF ok /\ clears THEN DeviceClear(out.hw) ELSE out.hw
           /\ pc' = IF ok THEN "fl_read" ELSE "raised"
           /\ err' = out.err
    /\ UNCHANGED <<num_entries, data, accel>>
    /\ flushUnchanged

\* flush, line 225
Flush_read(fail) ==
    /\ pc = "fl_read"
    /\ LET out == Register_read(hw, bound, "fifo_status", "ENTRIES", fail)
           ok == out.err = "none"
       IN  /\ hw' = out.hw
           /\ pc' = IF ok THEN "fl_loop" ELSE "raised"
           /\ err' = out.err
           /\ num_entries' = IF ok THEN out.ret ELSE num_entries
    /\ UNCHANGED <<data, accel>>
    /\ flushUnchanged

\* flush, lines 226-227: the loop test is true and one sample is read
Flush_get_accel(fail, d) ==
    /\ pc = "fl_loop"
    /\ num_entries # 0
    /\ LET out == get_accel(hw, d, fail)
           ok == out.err = "none"
       IN  /\ hw' = out.hw
           /\ pc' = IF ok THEN "fl_loop" ELSE "raised"
           /\ err' = out.err
           /\ data' = IF ok THEN d ELSE data
           /\ accel' = IF ok THEN out.ret ELSE accel
    /\ UNCHANGED num_entries
    /\ flushUnchanged

\* flush, line 226: the loop test is false and flush returns
Flush_return ==
    /\ pc = "fl_loop"
    /\ num_entries = 0
    /\ pc' = "fl_done"
    /\ UNCHANGED <<hw, err, num_entries, data, accel>>
    /\ flushUnchanged

InitFlush ==
    /\ \E n \in 0..FIFO_DEPTH, ovr \in {0, 1} :
          /\ ovr = 1 => n = FIFO_DEPTH
          /\ AcqStart("fl_enter", MAIN_WATERMARK, ODR_200, n, ovr)
    /\ duration_seconds = 0

NextFlush ==
    \/ \E fail \in BusFailures, clears \in BOOLEAN : Flush_write(fail, clears)
    \/ \E fail \in ReadFailures : Flush_read(fail)
    \/ \E fail \in ReadFailures, d \in DataSamples : Flush_get_accel(fail, d)
    \/ Flush_return

\* flush keeps running as long as its next statement can complete
FlushRuns ==
    \/ \E clears \in BOOLEAN : Flush_write("none", clears)
    \/ Flush_read("none")
    \/ \E d \in DataSamples : Flush_get_accel("none", d)
    \/ Flush_return

SpecFlush == InitFlush /\ [][NextFlush]_vars /\ WF_vars(FlushRuns)

\* C19 as claimed: flush terminates (it returns, or a bus call raises) for
\* every initial fill level 0..32, and when it returns the FIFO holds no
\* entry and FIFO_CTL.MODE is BYPASS.
C19_Claimed ==
    /\ <>(pc \in {"fl_done", "raised"})
    /\ [](pc = "fl_done" => entries_of(hw) = 0 /\ mode_of(hw) = BYPASS)

(***************************************************************************)
(* SpecPaced: read_continuous on a device in STREAM mode that holds fewer   *)
(* than 32 entries when the loop starts and takes at most one measurement   *)
(* between two consecutive reads of the entry count.                        *)
(***************************************************************************)
\* the device takes a measurement while an iteration is under way
Device_sample ==
    /\ pc \in {"rc_polled", "rc_flags", "rc_account", "rc_drain"}
    /\ budget > 0
    /\ hw' = DevicePush(hw)
    /\ budget' = budget - 1
    /\ UNCHANGED <<pc, err, buslog, vidx, elapsed>>
    /\ UNCHANGED <<duration_seconds, returned, csv, polls, ovr_polls, ntxn,
                   data, accel>>
    /\ UNCHANGED acqLocals
    /\ mainUnchanged

InitPaced ==
    /\ \E n \in 0..(FIFO_DEPTH - 1) :
          AcqStart("rc_enter", MAIN_WATERMARK, ODR_200, n, 0)
    /\ duration_seconds \in 1..MaxDuration

NextPaced ==
    \/ \E fail \in ReadFailures : Rc_enter(fail)
    \/ Rc_test
    \/ \E fail \in ReadFailures : Rc_poll_entries(fail, hw[FIFO_STATUS])
    \/ \E fail \in ReadFailures : Rc_poll_watermark(fail, hw[INT_SOURCE])
    \/ \E fail \in ReadFailures : Rc_poll_overrun(fail, hw[INT_SOURCE])
    \/ Rc_account
    \/ \E fail \in ReadFailures, d \in MainData, dt \in 1..MaxAdvance :
          Rc_drain(fail, d, dt)
    \/ \E dt \in 1..MaxAdvance : Rc_wait(dt)
    \/ Rc_finish
    \/ Device_sample

SpecPaced == InitPaced /\ [][NextPaced]_vars

\* C20 as claimed: with fewer than 32 entries at the start of the loop and
\* at most one new entry per polling iteration, the entry count never
\* reaches 32 and overflow_count stays 0.
C20_Claimed ==
    /\ entries_of(hw) < 32
    /\ overflow_count = 0

Max(a, b) == IF a >= b THEN a ELSE b

\* C20 amended: with fewer than 32 entries at the start of the loop and at
\* most one new entry per polling iteration, no entry is overwritten (the
\* device never raises OVERRUN, the loop never reads it as set) and
\* overflow_count stays 0; the entry count stays at or below one more than
\* the larger of its initial value and 11, so it never reaches 32 when the
\* loop started with fewer than 31 entries, and from 31 it reaches 32 only
\* until the drain of the same iteration (or the bus error that ends the
\* run).
C20_NoOverwriteWhilePaced ==
    /\ Bit(hw[INT_SOURCE], 0) = 0
    /\ fifo_overflow = 0
    /\ ovr_polls = 0
    /\ overflow_count = 0
    /\ entries_of(hw) <= Max(entries_of(hw0), 11) + 1
    /\ entries_of(hw0) < 31 => entries_of(hw) < 32
    /\ entries_of(hw) = 32 => pc \in {"rc_polled", "rc_flags", "rc_account",
                                      "rc_drain", "raised"}

\* a run of two iterations that started with 30 entries, drained twice
\* while the device took two measurements, and returned
C20_Witness ==
    /\ pc = "rc_returned"
    /\ entries_of(hw0) = 30
    /\ entries_of(hw) = 30
    /\ Len(returned) = 2
    /\ polls = 2
    /\ overflow_count = 0

====
